---- MODULE Spec2Model ----
(***************************************************************************)
(* Model of the erasmusintern.org traineeship scraper (src/src/scraper.py, *)
(* src/main.py, src/src/utils.py) and of the keyword search                *)
(* (src/search.py).                                                        *)
(*                                                                         *)
(* A Python str is a sequence of characters; here a character is an atom   *)
(* (a TLA+ string standing for one character or one indivisible run of     *)
(* characters), so "" is << >> and concatenation is \o.  A dict is a       *)
(* function whose DOMAIN is its key set.  A list is a sequence.            *)
(***************************************************************************)
EXTENDS Integers, Sequences, FiniteSets, TLC

VARIABLES
    pc,        \* position of the running program
    d_traineeship, d_response, d_result,  \* get_traineeship_details: argument, HTTP response, return value
    l_page_num, l_response, l_result,     \* scrape_traineeship_listings: argument, HTTP response, return value
    entry,                  \* what was started: main(), or scrape_all() called with its defaults
    argv,                   \* main: the command line as typed
    args, config,           \* main: parse_args()'s result, load_config()'s result
    scraper,                \* scrape_command: << >> until ErasmusInternScraper(...) is created
    max_pages, get_details, \* scrape_all: its arguments
    detected,               \* scrape_all: what get_total_pages() returned
    total_pages, page,      \* scrape_all: the effective page count, the loop variable
    traineeships_on_page, detailed_traineeships, all_traineeships,  \* scrape_all: its lists
    log,                    \* every session.get and time.sleep so far, in order
    produced,               \* every record scrape_traineeship_listings returned so far, with its page
    outcome,                \* how the run ended
    handed,                 \* scrape_command: the collection passed to save_to_csv
    s_traineeships, s_filename, s_fs, s_result,  \* save_to_csv: arguments, file system, outcome
    k_jobs, k_query, k_result,    \* search.py: the loaded jobs, args.query, keyword_matching's return value
    r_args, r_jobs, r_load, r_out,  \* search.py / rank_jobs.py main: the command line, the loaded
                                    \* jobs, how SentenceTransformer(...) ends, what the run produced
    p_response, p_result          \* get_total_pages: the HTTP response of the index page, return value

detailVars == <<d_traineeship, d_response, d_result>>

listingVars == <<l_page_num, l_response, l_result>>

crawlVars == <<entry, argv, args, config, scraper, max_pages, get_details, detected, total_pages,
               page, traineeships_on_page, detailed_traineeships, all_traineeships, log, produced,
               outcome, handed>>

saveVars == <<s_traineeships, s_filename, s_fs, s_result>>

searchVars == <<k_jobs, k_query, k_result>>

rankVars == <<r_args, r_jobs, r_load, r_out>>

pagesVars == <<p_response, p_result>>

\* the variables of the functions run on their own
unitVars == <<detailVars, listingVars, saveVars, searchVars, rankVars, pagesVars>>

vars == <<pc, detailVars, listingVars, crawlVars, saveVars, searchVars, rankVars, pagesVars>>

(***************************************************************************)
(* Strings                                                                 *)
(***************************************************************************)
NotSpecified == <<"Not specified">>

\* None, where a str is expected
None == <<"<None>">>

Whitespace == {" "}

RECURSIVE LStrip(_)
LStrip(s) == IF s # << >> /\ Head(s) \in Whitespace THEN LStrip(Tail(s)) ELSE s

RECURSIVE RStrip(_)
RStrip(s) ==
    IF s # << >> /\ s[Len(s)] \in Whitespace THEN RStrip(SubSeq(s, 1, Len(s) - 1)) ELSE s

\* str.strip()
Strip(s) == RStrip(LStrip(s))

\* c in s, for a single character c
HasChar(s, c) == \E i \in 1..Len(s) : s[i] = c

\* s.split(c, 1)[1]: what follows the first occurrence of c
AfterFirst(s, c) ==
    LET i == CHOOSE k \in 1..Len(s) : s[k] = c /\ \A j \in 1..(k - 1) : s[j] # c
    IN  SubSeq(s, i + 1, Len(s))

(***************************************************************************)
(* HTTP responses.  status: "ok" (2xx), "http_error" (non-2xx, so          *)
(* raise_for_status raises HTTPError), "conn_error" (session.get raises    *)
(* ConnectionError).  Both exceptions are requests.RequestException.       *)
(***************************************************************************)
\* the exception raised by session.get(url) followed by response.raise_for_status()
FetchException(response) ==
    CASE response.status = "conn_error" -> "ConnectionError"
      [] response.status = "http_error" -> "HTTPError"
      [] OTHER -> "none"

\* the exception raised by session.get(url) alone
GetException(response) ==
    IF response.status = "conn_error" THEN "ConnectionError" ELSE "none"

\* the classes caught by `except requests.RequestException`
RequestException == {"ConnectionError", "HTTPError"}

\* what a call does: it returns ret, or raises exc
Return(value) == [exc |-> "none", ret |-> value]
Raise(e) == [exc |-> e, ret |-> << >>]

(***************************************************************************)
(* get_traineeship_details                                                 *)
(***************************************************************************)
\* the keys of `fields`, in the dict's order
DetailFields == <<"post_date", "duration", "description">>

\* the text stored for one field of `fields`; elements = soup.select(selector),
\* each element given by its get_text(strip=True, separator=' ')
DetailText(elements) ==
    IF elements # << >>
    THEN LET text == Head(elements)
         IN  IF HasChar(text, ":") THEN Strip(AfterFirst(text, ":")) ELSE text
    ELSE NotSpecified

\* the loop over fields.items() that builds `details`
RECURSIVE BuildDetails(_, _, _, _)
BuildDetails(result, soup, i, details) ==
    IF i > Len(DetailFields) THEN details
    ELSE LET field_name == DetailFields[i]
         IN  IF field_name \in DOMAIN result /\ result[field_name] # NotSpecified
             THEN BuildDetails(result, soup, i + 1, details)
             ELSE BuildDetails(result, soup, i + 1,
                               (field_name :> DetailText(soup[field_name])) @@ details)

\* must the loop over details.items() assign this key
MergeOverwrites(result, key) ==
    key \notin DOMAIN result \/ result[key] = NotSpecified

\* the loop over details.items() that updates `result`
MergeDetails(result, details) ==
    [key \in DOMAIN result \cup DOMAIN details |->
        IF key \in DOMAIN details /\ MergeOverwrites(result, key)
        THEN details[key] ELSE result[key]]

\* a plausible slip: every field of the detail page is extracted and assigned
DetailsMergedOverwriting(traineeship, response) ==
    [key \in DOMAIN traineeship \cup {"post_date", "duration", "description"} |->
        IF key \in {"post_date", "duration", "description"}
        THEN DetailText(response.soup[key]) ELSE traineeship[key]]

\* the body of the try block, the response being a success
DetailsMerged(traineeship, response) ==
    MergeDetails(traineeship,
                 BuildDetails(traineeship, response.soup, 1, << >>))

\* a plausible slip: the except branch returns a record filled with sentinels
DetailsOnFailurePartial(traineeship) ==
    MergeDetails(traineeship, [key \in {"description"} |-> NotSpecified])

\* the except branch: return traineeship
DetailsOnFailure(traineeship) == traineeship

\* get_traineeship_details(traineeship), the fetch of traineeship["url"] answering `response`
GetTraineeshipDetails(traineeship, response) ==
    LET e == FetchException(response)
    IN  IF e = "none" THEN Return(DetailsMerged(traineeship, response))
        ELSE IF e \in RequestException THEN Return(DetailsOnFailure(traineeship))
        ELSE Raise(e)

(***************************************************************************)
(* scrape_traineeship_listings                                             *)
(*                                                                         *)
(* A listing fragment (one element of listing_container) is given by what  *)
(* each select_one of the loop body finds in it: << >> for None, <<e>> for *)
(* an element e.  An element is its text; the title element is a record    *)
(* of its text and its attrs.  A bs4 Tag is always truthy, so `if elem:`   *)
(* is `elem is not None`.                                                  *)
(***************************************************************************)
\* s.replace(atom, "")
RECURSIVE RemoveAll(_, _)
RemoveAll(s, atom) ==
    IF s = << >> THEN << >>
    ELSE IF Head(s) = atom THEN RemoveAll(Tail(s), atom)
    ELSE <<Head(s)>> \o RemoveAll(Tail(s), atom)

\* link.startswith('http')
StartsWithHttp(link) == Len(link) >= 1 /\ link[1] = "http"

\* "https://erasmusintern.org"
SiteOrigin == <<"http", "s://erasmusintern.org">>

\* a or b, for two select_one results
FirstFound(a, b) == IF a # << >> THEN a ELSE b

\* the duration and post_date loops: the first selector that finds an element wins
RECURSIVE ExtractLabelled(_, _, _)
ExtractLabelled(found, label, i) ==
    IF i > Len(found) THEN NotSpecified
    ELSE IF found[i] # << >>
         THEN LET text == Strip(Head(found[i]))
              IN  IF HasChar(text, label) THEN Strip(RemoveAll(text, label)) ELSE text
         ELSE ExtractLabelled(found, label, i + 1)

ExtractLocation(city_elem, country_elem) ==
    IF city_elem # << >> /\ country_elem # << >>
    THEN Strip(Head(city_elem)) \o <<", ">> \o Strip(Head(country_elem))
    ELSE IF country_elem # << >> THEN Strip(Head(country_elem))
    ELSE NotSpecified

ExtractDeadline(deadline_container) ==
    IF deadline_container # << >>
    THEN LET c == Head(deadline_container)
         IN  IF c.date_display_single # << >> THEN Strip(Head(c.date_display_single))
             ELSE IF c.field_item # << >> THEN Strip(Head(c.field_item))
             ELSE NotSpecified
    ELSE NotSpecified

\* a plausible slip: the link is stored as found
ExtractLinkAsFound(href) == href

\* link = title_elem['href'], prefixed with the origin unless it starts with 'http'
ExtractLink(href) == IF ~StartsWithHttp(href) THEN SiteOrigin \o href ELSE href

\* the title element of a fragment: the first selector group, else the alternate one
TitleElem(container) == FirstFound(container.title, container.title_alt)

\* does the loop body reach traineeships.append for this fragment
\* (no title element: continue; no href attribute: KeyError, caught, continue)
FragmentYieldsRecord(container) ==
    /\ TitleElem(container) # << >>
    /\ "href" \in DOMAIN Head(TitleElem(container)).attrs

\* the dict built by one iteration of the loop
ExtractRecord(container, page_num) ==
    LET title_elem == Head(TitleElem(container))
    IN  [title |-> Strip(title_elem.text),
         company |-> IF container.company # << >>
                     THEN Strip(Head(container.company)) ELSE NotSpecified,
         location |-> ExtractLocation(container.city, container.country),
         duration |-> ExtractLabelled(container.duration, "Duration:", 1),
         post_date |-> ExtractLabelled(container.post_date, "Post date:", 1),
         deadline |-> ExtractDeadline(container.deadline),
         field |-> IF container.field # << >>
                   THEN Strip(Head(container.field)) ELSE NotSpecified,
         url |-> ExtractLink(title_elem.attrs.href),
         page_number |-> page_num]

\* a plausible slip: the first fragment without a title ends the loop (break for continue)
RECURSIVE ListingLoopBreaking(_, _)
ListingLoopBreaking(containers, page_num) ==
    IF containers = << >> \/ TitleElem(Head(containers)) = << >> THEN << >>
    ELSE (IF FragmentYieldsRecord(Head(containers))
          THEN <<ExtractRecord(Head(containers), page_num)>> ELSE << >>)
         \o ListingLoopBreaking(Tail(containers), page_num)

\* the loop `for container in listing_container`
RECURSIVE ListingLoop(_, _)
ListingLoop(containers, page_num) ==
    IF containers = << >> THEN << >>
    ELSE (IF FragmentYieldsRecord(Head(containers))
          THEN <<ExtractRecord(Head(containers), page_num)>> ELSE << >>)
         \o ListingLoop(Tail(containers), page_num)

\* listing_container: '.media-list-items', else '.view-content > div'
ListingContainer(soup) ==
    IF soup.media_list_items # << >> THEN soup.media_list_items ELSE soup.view_content_div

\* a plausible slip: no except branch, the failure of the fetch leaves the function
ScrapeTraineeshipListingsRaising(page_num, response) ==
    LET e == FetchException(response)
    IN  IF e = "none" THEN Return(ListingLoop(ListingContainer(response.soup), page_num))
        ELSE Raise(e)

\* scrape_traineeship_listings(page_num), the fetch of the page answering `response`
ScrapeTraineeshipListings(page_num, response) ==
    LET e == FetchException(response)
    IN  IF e = "none" THEN Return(ListingLoop(ListingContainer(response.soup), page_num))
        ELSE IF e \in RequestException THEN Return(<< >>)
        ELSE Raise(e)

(***************************************************************************)
(* get_total_pages                                                         *)
(*                                                                         *)
(* A pager element is a record of its attrs and its text.  A number in a   *)
(* string is one digit character.                                          *)
(***************************************************************************)
Digits == <<"0", "1", "2", "3", "4", "5", "6", "7", "8", "9">>

\* does int(s) return (s stripped is one digit), or raise ValueError
IsInt(s) == Len(Strip(s)) = 1 /\ \E d \in 1..Len(Digits) : Digits[d] = Strip(s)[1]

\* int(s), for a string int() accepts
IntOf(s) == (CHOOSE d \in 1..Len(Digits) : Digits[d] = Strip(s)[1]) - 1

\* the digit string of a number
DigitOf(n) == Digits[n + 1]

\* s.split(sep)[1], for a string that contains sep: what lies between its first
\* occurrence and the next one (or the end)
SecondPiece(s, sep) ==
    LET rest == AfterFirst(s, sep)
    IN  IF HasChar(rest, sep)
        THEN SubSeq(rest, 1, (CHOOSE k \in 1..Len(rest) :
                                 rest[k] = sep /\ \A j \in 1..(k - 1) : rest[j] # sep) - 1)
        ELSE rest

\* element.get('href', '')
HrefOrEmpty(element) == IF "href" \in DOMAIN element.attrs THEN element.attrs.href ELSE << >>

\* the number one pager item stands for: <<num>>, or << >> when the item is skipped
\* (IndexError: no 'page=' in the href; ValueError: not an integer)
PagerItemNumber(item) ==
    IF "href" \in DOMAIN item.attrs
    THEN IF HasChar(item.attrs.href, "page=") /\ IsInt(SecondPiece(item.attrs.href, "page="))
         THEN <<IntOf(SecondPiece(item.attrs.href, "page=")) + 1>>
         ELSE << >>
    ELSE IF IsInt(item.text) THEN <<IntOf(item.text)>> ELSE << >>

\* the list `pages`
RECURSIVE PagerItemNumbers(_)
PagerItemNumbers(items) ==
    IF items = << >> THEN << >>
    ELSE PagerItemNumber(Head(items)) \o PagerItemNumbers(Tail(items))

\* max(pages), for a list that is not empty
MaxOf(pages) == CHOOSE m \in {pages[i] : i \in 1..Len(pages)} :
                    \A i \in 1..Len(pages) : pages[i] <= m

\* the try block of get_total_pages; a ValueError of the first int() reaches
\* `except Exception`, which returns 1
PagerTotal(soup) ==
    IF soup.pager_last # << >> /\ HasChar(HrefOrEmpty(Head(soup.pager_last)), "page=")
    THEN LET param == SecondPiece(HrefOrEmpty(Head(soup.pager_last)), "page=")
         IN  IF IsInt(param) THEN IntOf(param) + 1 ELSE 1
    ELSE IF soup.pager_items # << >>
         THEN LET pages == PagerItemNumbers(soup.pager_items)
              IN  IF pages # << >> THEN MaxOf(pages) ELSE 1
         ELSE 1

\* get_total_pages(), the fetch of base_url answering `response`; session.get is
\* outside the try block and no raise_for_status is called
GetTotalPages(response) ==
    IF GetException(response) # "none" THEN Raise(GetException(response))
    ELSE Return(PagerTotal(response.soup))

(***************************************************************************)
(* scrape_all: the page cap                                                *)
(* An Optional[int] is << >> for None and <<n>> for the integer n.         *)
(***************************************************************************)
\* a plausible slip: the cap replaces the detected count
EffectivePagesCapOnly(count, cap) ==
    IF cap # << >> /\ cap[1] > 0 THEN cap[1] ELSE count

\* total_pages after `if max_pages is not None and max_pages > 0` (count: the detected
\* total, cap: max_pages)
EffectivePages(count, cap) ==
    IF cap # << >> /\ cap[1] > 0
    THEN (IF count < cap[1] THEN count ELSE cap[1])
    ELSE count

(***************************************************************************)
(* load_config, validate_config                                            *)
(***************************************************************************)
\* s.startswith(prefix)
StartsWith(s, prefix) == Len(s) >= Len(prefix) /\ SubSeq(s, 1, Len(prefix)) = prefix

\* a plausible slip: only the API key is checked
ValidateConfigKeyOnly(cfg) == cfg.groq_api_key # << >>

\* validate_config(config)
ValidateConfig(cfg) ==
    IF cfg.groq_api_key = << >> THEN FALSE
    ELSE IF cfg.base_url = << >> \/ ~StartsWith(cfg.base_url, SiteOrigin) THEN FALSE
    ELSE TRUE

\* scrape_command: the null clean-up of one record (page_number is an int, never None)
CleanRecord(t) ==
    [key \in DOMAIN t |-> IF key # "page_number" /\ t[key] = None THEN NotSpecified ELSE t[key]]

CleanAll(traineeships) == [i \in 1..Len(traineeships) |-> CleanRecord(traineeships[i])]

(***************************************************************************)
(* get_traineeship_details on its own: every record and every detail page  *)
(***************************************************************************)
RealDuration == <<"3 months">>
RealPostDate == <<"2 days ago">>
RealDescription == <<"listing text">>

\* the records scrape_traineeship_listings can build, as far as the merge reads them
ListingRecord(duration, post_date) ==
    [title |-> <<"T">>, company |-> <<"C">>, location |-> NotSpecified,
     duration |-> duration, post_date |-> post_date, deadline |-> NotSpecified,
     field |-> NotSpecified, url |-> <<"https://erasmusintern.org", "/t/1">>,
     page_number |-> 1]

WithDescription(record, description) ==
    [key \in DOMAIN record \cup {"description"} |->
        IF key = "description" THEN description ELSE record[key]]

DetailRecords ==
    LET base == {ListingRecord(d, p) : d \in {NotSpecified, RealDuration},
                                      p \in {NotSpecified, RealPostDate}}
    IN  base \cup {WithDescription(r, x) : r \in base, x \in {NotSpecified, RealDescription}}

\* what soup.select(selector) finds on a detail page: nothing, one element, an element
\* with a label, an empty element, two elements
DetailElements ==
    { << >>,
      << <<"6 months">> >>,
      << <<"Label", ":", " ", "6 months", " ">> >>,
      << << >> >>,
      << <<"first">>, <<"second">> >> }

DetailSoups ==
    [post_date : DetailElements, duration : DetailElements, description : DetailElements]

Statuses == {"ok", "http_error", "conn_error"}

DetailResponses == [status : Statuses, soup : DetailSoups]

\* values of the variables of a function that is not running
NoRecord == [title |-> << >>]
NoResponse == [status |-> "none"]
NoResult == Raise("not called")

DetailIdle == d_traineeship = NoRecord /\ d_response = NoResponse /\ d_result = NoResult
ListingIdle == l_page_num = 0 /\ l_response = NoResponse /\ l_result = NoResult
SaveIdle ==
    s_traineeships = << >> /\ s_filename = << >> /\ s_fs = << >> /\ s_result = NoResult
SearchIdle == k_jobs = << >> /\ k_query = << >> /\ k_result = << >>
RankIdle ==
    r_args = [program |-> "none"] /\ r_jobs = << >> /\ r_load = "none" /\ r_out = NoResult
PagesIdle == p_response = NoResponse /\ p_result = NoResult
CrawlIdle ==
    /\ entry = "none" /\ argv = [command |-> "none"] /\ args = [command |-> "none"]
    /\ config = [base_url |-> << >>]
    /\ scraper = << >> /\ max_pages = << >> /\ get_details = FALSE /\ detected = 0
    /\ total_pages = 0 /\ page = 0 /\ traineeships_on_page = << >>
    /\ detailed_traineeships = << >> /\ all_traineeships = << >> /\ log = << >>
    /\ produced = << >>
    /\ outcome = "none" /\ handed = << >>

DetailInit ==
    /\ pc = "details_call"
    /\ d_traineeship \in DetailRecords
    /\ d_response \in DetailResponses
    /\ d_result = NoResult
    /\ ListingIdle
    /\ CrawlIdle
    /\ SaveIdle
    /\ SearchIdle
    /\ RankIdle
    /\ PagesIdle

DetailCall ==
    /\ pc = "details_call"
    /\ d_result' = GetTraineeshipDetails(d_traineeship, d_response)
    /\ pc' = "details_done"
    /\ UNCHANGED <<d_traineeship, d_response, listingVars, crawlVars, saveVars, searchVars,
                   rankVars, pagesVars>>

DetailNext == DetailCall

SpecDetails == DetailInit /\ [][DetailNext]_vars

\* the field is in the record with a value other than the sentinel
HasRealValue(record, key) == key \in DOMAIN record /\ record[key] # NotSpecified

\* C1: get_traineeship_details never changes post_date, duration or description when the
\* incoming record holds a value other than "Not specified" for it: the returned record
\* holds the incoming value, whatever the detail page contains.
C1_MergeKeepsRealValues ==
    pc = "details_done" =>
        \A key \in {"post_date", "duration", "description"} :
            HasRealValue(d_traineeship, key) =>
                /\ d_result.exc = "none"
                /\ key \in DOMAIN d_result.ret
                /\ d_result.ret[key] = d_traineeship[key]

\* C1 witness: the spec's example, a record with duration "3 months" merged with a detail
\* page whose duration is "6 months", keeps "3 months"
C1_Witness ==
    /\ pc = "details_done"
    /\ d_response.status = "ok"
    /\ d_traineeship.duration = RealDuration
    /\ d_response.soup.duration = << <<"6 months">> >>
    /\ d_result.ret.duration = RealDuration

\* C5: when the detail fetch fails (connection error or non-2xx status),
\* get_traineeship_details raises nothing and returns the incoming record: the same
\* keys, the same values, no key added.
C5_FailedFetchReturnsOriginal ==
    (pc = "details_done" /\ FetchException(d_response) # "none") =>
        /\ d_result.exc = "none"
        /\ DOMAIN d_result.ret = DOMAIN d_traineeship
        /\ d_result.ret = d_traineeship

\* C5 witness: a failed fetch for a record that has no description yet
C5_Witness ==
    /\ pc = "details_done"
    /\ d_response.status = "conn_error"
    /\ "description" \notin DOMAIN d_traineeship
    /\ d_traineeship.duration = NotSpecified
    /\ d_result = Return(d_traineeship)

(***************************************************************************)
(* scrape_traineeship_listings on its own: every listing page of up to     *)
(* MaxFragments fragments                                                  *)
(***************************************************************************)
MaxFragments == 3

\* the i-th fragment of a page is told from the others by this character of its title and link
TagOf(i) == <<"1", "2", "3", "4", "5", "6">>[i]

NoDeadline == << >>

\* every field found by its first selector, an absolute link
FullFragment(tag) ==
    [title |-> <<[text |-> <<" ", "T", tag, " ">>,
                 attrs |-> [href |-> SiteOrigin \o <<"/t/", tag>>]]>>,
     title_alt |-> << >>,
     company |-> <<<<"ACME">>>>, city |-> <<<<"Porto">>>>, country |-> <<<<"Portugal">>>>,
     duration |-> <<<<<<"3 months">>>>, << >>, << >>, << >>>>,
     post_date |-> <<<<<<"2 days ago">>>>, << >>, << >>, << >>>>,
     deadline |-> <<[date_display_single |-> <<<<"1 May">>>>, field_item |-> <<<<"1 May">>>>]>>,
     field |-> <<<<"IT">>>>]

\* only a title, found by the alternate selector, with a relative link
SparseFragment(tag) ==
    [title |-> << >>,
     title_alt |-> <<[text |-> <<"T", tag>>, attrs |-> [href |-> <<"/t/", tag>>]]>>,
     company |-> << >>, city |-> << >>, country |-> << >>,
     duration |-> <<<< >>, << >>, << >>, << >>>>,
     post_date |-> <<<< >>, << >>, << >>, << >>>>,
     deadline |-> NoDeadline,
     field |-> << >>]

\* no title element under any title selector; the other fields are there
NoTitleFragment(tag) ==
    [FullFragment(tag) EXCEPT !.title = << >>]

\* a title anchor without an href attribute
NoHrefFragment(tag) ==
    [FullFragment(tag) EXCEPT !.title = <<[text |-> <<"T", tag>>, attrs |-> [name |-> <<"a">>]]>>]

\* labelled texts found by later selectors, a country without a city
LabelledFragment(tag) ==
    [SparseFragment(tag) EXCEPT
        !.country = <<<<"Spain">>>>,
        !.duration = <<<< >>, <<<<"Duration:", " ", "6 months">>>>, <<<<"other">>>>, << >>>>,
        !.post_date = <<<< >>, << >>, << >>, <<<<"Post date:", "today">>>>>>,
        !.deadline = <<[date_display_single |-> << >>, field_item |-> <<<<" ", "2 June">>>>]>>]

\* the first selector that finds a duration element finds an empty one, the post date
\* element found is nothing but its label; later selectors would find texts
EmptyFirstFragment(tag) ==
    [FullFragment(tag) EXCEPT
        !.duration = <<<<<< >>>>, <<<<"3 months">>>>, << >>, << >>>>,
        !.post_date = <<<< >>, <<<<"Post date:", " ">>>>, <<<<"today">>>>, << >>>>]

FragmentKinds == {"full", "sparse", "no_title", "no_href", "labelled", "empty_first"}

FragmentOf(kind, tag) ==
    CASE kind = "full" -> FullFragment(tag)
      [] kind = "sparse" -> SparseFragment(tag)
      [] kind = "no_title" -> NoTitleFragment(tag)
      [] kind = "no_href" -> NoHrefFragment(tag)
      [] kind = "labelled" -> LabelledFragment(tag)
      [] kind = "empty_first" -> EmptyFirstFragment(tag)

FragmentLists ==
    UNION {{[i \in 1..n |-> FragmentOf(kinds[i], TagOf(i))] : kinds \in [1..n -> FragmentKinds]}
           : n \in 0..MaxFragments}

\* the fragments under the primary container selector, or under the fallback one, or both
ListingSoups ==
    {[media_list_items |-> cs, view_content_div |-> << >>] : cs \in FragmentLists}
    \cup {[media_list_items |-> << >>, view_content_div |-> cs] : cs \in FragmentLists}
    \cup {[media_list_items |-> cs, view_content_div |-> <<FullFragment("1")>>]
           : cs \in FragmentLists}

ListingResponses == [status : Statuses, soup : ListingSoups]

ListingInit ==
    /\ pc = "listing_call"
    /\ l_page_num \in 1..2
    /\ l_response \in ListingResponses
    /\ l_result = NoResult
    /\ DetailIdle
    /\ CrawlIdle
    /\ SaveIdle
    /\ SearchIdle
    /\ RankIdle
    /\ PagesIdle

ListingCall ==
    /\ pc = "listing_call"
    /\ l_result' = ScrapeTraineeshipListings(l_page_num, l_response)
    /\ pc' = "listing_done"
    /\ UNCHANGED <<l_page_num, l_response, detailVars, crawlVars, saveVars, searchVars,
                   rankVars, pagesVars>>

ListingNext == ListingCall

SpecListing == ListingInit /\ [][ListingNext]_vars

\* the fragments of the answered page, in document order
C8_Fragments == ListingContainer(l_response.soup)

C8_TitleLocated(c) == c.title # << >> \/ c.title_alt # << >>

C8_TitleHasHref(c) ==
    \/ c.title # << >> /\ "href" \in DOMAIN c.title[1].attrs
    \/ c.title = << >> /\ c.title_alt # << >> /\ "href" \in DOMAIN c.title_alt[1].attrs

\* the tags of the fragments whose index is in keep, in page order
RECURSIVE C8_TagsOf(_, _, _)
C8_TagsOf(cs, i, keep) ==
    IF i > Len(cs) THEN << >>
    ELSE (IF i \in keep THEN <<TagOf(i)>> ELSE << >>) \o C8_TagsOf(cs, i + 1, keep)

\* the tag carried by each returned record's title, in list order
C8_RecordTags == [j \in 1..Len(l_result.ret) |-> l_result.ret[j].title[2]]

\* C8 as stated: on every listing page a fragment without a locatable title produces no
\* record and every other fragment produces its record, in page order.
C8_EveryTitledFragmentYieldsRecord ==
    (pc = "listing_done" /\ l_response.status = "ok") =>
        /\ l_result.exc = "none"
        /\ C8_RecordTags = C8_TagsOf(C8_Fragments, 1,
                            {i \in 1..Len(C8_Fragments) : C8_TitleLocated(C8_Fragments[i])})

\* C8 amended: a fragment without a locatable title, or whose title link has no href
\* attribute, produces no record; every other fragment of the page, before and after
\* it, produces its record, in page order.
C8_SkippedFragmentsOnly ==
    (pc = "listing_done" /\ l_response.status = "ok") =>
        /\ l_result.exc = "none"
        /\ C8_RecordTags = C8_TagsOf(C8_Fragments, 1,
                            {i \in 1..Len(C8_Fragments) : C8_TitleHasHref(C8_Fragments[i])})

\* C8 witness: a title-less fragment between two fragments that both produce their record
C8_Witness ==
    /\ pc = "listing_done"
    /\ l_response.status = "ok"
    /\ Len(C8_Fragments) = 3
    /\ C8_TitleLocated(C8_Fragments[1])
    /\ ~C8_TitleLocated(C8_Fragments[2])
    /\ C8_TitleLocated(C8_Fragments[3])
    /\ C8_RecordTags = <<"1", "3">>

(***************************************************************************)
(* The run of main.py: main, scrape_command, scrape_all                    *)
(***************************************************************************)
MaxTotal == 3
MaxCap == 3

DefaultBaseUrl == SiteOrigin \o <<"/traineeships">>

\* the command lines: scrape with or without --max-pages N and --no-details, search
\* with a query, or no subcommand
ArgvSpace ==
    {[command |-> "scrape", max_pages |-> m, no_details |-> b]
        : m \in {<< >>} \cup {<<n>> : n \in (-1)..MaxCap}, b \in BOOLEAN}
    \cup {[command |-> "search", query |-> <<"python">>]}
    \cup {[command |-> "none"]}

\* parse_args(): the scrape subcommand sets max_pages (default 0), no_details and
\* output; with the search subcommand or with no subcommand those attributes do not exist
ParseArgs(line) ==
    CASE line.command = "scrape" ->
            [command |-> "scrape",
             max_pages |-> IF line.max_pages = << >> THEN <<0>> ELSE line.max_pages,
             no_details |-> line.no_details, output |-> << >>]
      [] line.command = "search" ->
            [command |-> "search", query |-> line.query, data |-> << >>, limit |-> 5]
      [] OTHER -> [command |-> "none"]

ArgSpace == {ParseArgs(line) : line \in ArgvSpace}

\* load_config(): the environment's GROQ_API_KEY, BASE_URL, MAX_PAGES, DATA_DIR
ConfigSpace ==
    [groq_api_key : {<< >>, <<"key">>},
     base_url : {DefaultBaseUrl, << >>, <<"http", "://example.org">>},
     max_pages : {0, MaxCap},
     data_dir : {<<"data">>}]

DefaultConfig ==
    [groq_api_key |-> << >>, base_url |-> DefaultBaseUrl, max_pages |-> 0,
     data_dir |-> <<"data">>]

\* pager markup of the index page
PagerLink(n) == [attrs |-> [href |-> <<"/traineeships?", "page=", DigitOf(n)>>], text |-> <<"x">>]
PagerCurrent(n) == [attrs |-> [class |-> <<"pager-current">>], text |-> <<" ", DigitOf(n), " ">>]
PagerNoParam == [attrs |-> [href |-> <<"/traineeships">>], text |-> <<"first">>]
PagerBadParam == [attrs |-> [href |-> <<"/traineeships?", "page=", "2", "&x=1">>], text |-> <<"x">>]

IndexSoups ==
    {[pager_last |-> << >>, pager_items |-> << >>]}
    \cup {[pager_last |-> <<PagerLink(n - 1)>>, pager_items |-> <<PagerCurrent(1)>>]
             : n \in 1..MaxTotal}
    \cup {[pager_last |-> << >>, pager_items |-> <<PagerCurrent(1), PagerNoParam, PagerLink(n - 1)>>]
             : n \in 1..MaxTotal}
    \cup {[pager_last |-> <<PagerNoParam>>, pager_items |-> <<PagerLink(n - 1), PagerBadParam>>]
             : n \in 1..MaxTotal}
    \cup {[pager_last |-> <<PagerBadParam>>, pager_items |-> <<PagerLink(n - 1)>>]
             : n \in 1..MaxTotal}
    \cup {[pager_last |-> << >>, pager_items |-> <<PagerBadParam, PagerNoParam>>]}

IndexResponses == [status : Statuses, soup : IndexSoups]

\* the listing pages of the crawl: no fragment, or a full, a title-less and a sparse one
EmptySoup == [media_list_items |-> << >>, view_content_div |-> << >>]
CrawlSoups ==
    {EmptySoup,
     [media_list_items |-> <<FullFragment("1"), NoTitleFragment("2"), SparseFragment("3")>>,
      view_content_div |-> << >>]}

CrawlListingResponses ==
    {[status |-> st, soup |-> EmptySoup] : st \in {"http_error", "conn_error"}}
    \cup {[status |-> "ok", soup |-> soup] : soup \in CrawlSoups}

\* the detail pages of the crawl: a duration and a description, no post date
CrawlDetailSoup ==
    [post_date |-> << >>, duration |-> <<<<"6 months">>>>,
     description |-> <<<<"About", ":", " ", "the job">>>>]

CrawlDetailResponses ==
    {[status |-> st, soup |-> CrawlDetailSoup] : st \in {"ok", "conn_error"}}

Event(op, target, p, status) == [op |-> op, target |-> target, page |-> p, status |-> status]

\* a plausible slip: the page's records are assigned where they should be added
ExtendReplacing(list, items) == items

\* list.extend(items)
Extend(list, items) == list \o items

\* a plausible slip: the detail page is requested without the delay before it
DetailEventsUndelayed(p, url, status) ==
    <<[op |-> "get", target |-> "detail", page |-> p, status |-> status, url |-> url]>>

\* what one call of get_traineeship_details adds to the log: its time.sleep, then its
\* session.get(url)
DetailEvents(p, url, status) ==
    <<[op |-> "sleep", target |-> "detail", page |-> p, status |-> "none", url |-> url],
      [op |-> "get", target |-> "detail", page |-> p, status |-> status, url |-> url]>>

CrawlInit ==
    /\ entry \in {"main", "scrape_all"}
    /\ IF entry = "main"
       THEN /\ pc = "main"
            /\ argv \in ArgvSpace
            /\ args = ParseArgs(argv)
            /\ config \in ConfigSpace
            /\ scraper = << >>
            /\ get_details = TRUE
       ELSE /\ pc = "get_total_pages"
            /\ argv = [command |-> "none"]
            /\ args = [command |-> "none"]
            /\ config = DefaultConfig
            /\ scraper = <<[base_url |-> DefaultBaseUrl, data_dir |-> <<"data">>]>>
            /\ get_details \in BOOLEAN
    /\ max_pages = << >>
    /\ detected = 0 /\ total_pages = 0 /\ page = 0
    /\ traineeships_on_page = << >> /\ detailed_traineeships = << >>
    /\ all_traineeships = << >>
    /\ log = << >>
    /\ produced = << >>
    /\ outcome = "running"
    /\ handed = << >>
    /\ DetailIdle
    /\ ListingIdle
    /\ SaveIdle
    /\ SearchIdle
    /\ RankIdle
    /\ PagesIdle

\* main(): load_config, validate_config, the dispatch on args.command
Main ==
    /\ pc = "main"
    /\ IF ~ValidateConfig(config)
       THEN pc' = "done" /\ outcome' = "exit 1"
       ELSE /\ pc' = (IF args.command = "search" THEN "search_command" ELSE "scrape_command")
            /\ outcome' = outcome
    /\ UNCHANGED <<entry, produced, argv, args, config, scraper, max_pages, get_details, detected,
                   total_pages, page, traineeships_on_page, detailed_traineeships,
                   all_traineeships, log, handed, unitVars>>

\* search_command(): JobSearch is not defined in main.py; the NameError is caught
SearchCommand ==
    /\ pc = "search_command"
    /\ pc' = "done"
    /\ outcome' = "error NameError"
    /\ UNCHANGED <<entry, produced, argv, args, config, scraper, max_pages, get_details, detected,
                   total_pages, page, traineeships_on_page, detailed_traineeships,
                   all_traineeships, log, handed, unitVars>>

\* scrape_command(), up to the call of scrape_all: args.max_pages raises
\* AttributeError when no subcommand was given, and the except branch ends the command
ScrapeCommand ==
    /\ pc = "scrape_command"
    /\ IF "max_pages" \notin DOMAIN args
       THEN /\ pc' = "done"
            /\ outcome' = "error AttributeError"
            /\ UNCHANGED <<max_pages, get_details, scraper>>
       ELSE /\ max_pages' = (IF args.max_pages # << >> THEN args.max_pages
                             ELSE <<config.max_pages>>)
            /\ get_details' = ~args.no_details
            /\ scraper' = <<[base_url |-> config.base_url, data_dir |-> config.data_dir]>>
            /\ pc' = "get_total_pages"
            /\ outcome' = outcome
    /\ UNCHANGED <<entry, produced, argv, args, config, detected, total_pages, page, traineeships_on_page,
                   detailed_traineeships, all_traineeships, log, handed, unitVars>>

\* scrape_all(): get_total_pages() and the cap; an exception leaves scrape_all, and
\* under main it is caught by scrape_command's except branch
ScrapeAllStart ==
    /\ pc = "get_total_pages"
    /\ \E response \in IndexResponses :
        LET r == GetTotalPages(response)
        IN  /\ log' = Append(log, Event("get", "index", 0, response.status))
            /\ IF r.exc # "none"
               THEN /\ pc' = "done"
                    /\ outcome' = "scrape_all raised"
                    /\ UNCHANGED <<detected, total_pages, page>>
               ELSE /\ detected' = r.ret
                    /\ total_pages' = EffectivePages(r.ret, max_pages)
                    /\ page' = 1
                    /\ pc' = (IF EffectivePages(r.ret, max_pages) >= 1
                              THEN "page" ELSE "scrape_all_return")
                    /\ outcome' = outcome
    /\ UNCHANGED <<entry, produced, argv, args, config, scraper, max_pages, get_details,
                   traineeships_on_page, detailed_traineeships, all_traineeships, handed,
                   unitVars>>

\* the loop body up to the details: scrape_traineeship_listings(page), then either the
\* start of the detail loop or all_traineeships.extend(traineeships_on_page)
ScrapePage ==
    /\ pc = "page"
    /\ \E response \in CrawlListingResponses :
        LET r == ScrapeTraineeshipListings(page, response)
        IN  /\ log' = Append(log, Event("get", "listing", page, response.status))
            /\ IF r.exc # "none"
               THEN /\ pc' = "done"
                    /\ outcome' = "scrape_all raised"
                    /\ UNCHANGED <<traineeships_on_page, detailed_traineeships,
                                   all_traineeships, produced>>
               ELSE /\ traineeships_on_page' = r.ret
                    /\ produced' = produced \o [i \in 1..Len(r.ret) |->
                                                  [page |-> page, record |-> r.ret[i]]]
                    /\ detailed_traineeships' = << >>
                    /\ outcome' = outcome
                    /\ IF get_details /\ r.ret # << >>
                       THEN pc' = "details" /\ UNCHANGED all_traineeships
                       ELSE /\ pc' = "page_end"
                            /\ all_traineeships' = Extend(all_traineeships, r.ret)
    /\ UNCHANGED <<entry, argv, args, config, scraper, max_pages, get_details, detected,
                   total_pages, page, handed, unitVars>>

\* one iteration of `for traineeship in traineeships_on_page`: the sleep and the fetch of
\* get_traineeship_details; after the last one, all_traineeships.extend(detailed_traineeships)
ScrapeDetails ==
    /\ pc = "details"
    /\ \E response \in CrawlDetailResponses :
        LET traineeship == traineeships_on_page[Len(detailed_traineeships) + 1]
            r == GetTraineeshipDetails(traineeship, response)
            detailed == Append(detailed_traineeships, r.ret)
        IN  /\ log' = log \o DetailEvents(page, traineeship.url, response.status)
            /\ IF r.exc # "none"
               THEN /\ pc' = "done"
                    /\ outcome' = "scrape_all raised"
                    /\ UNCHANGED <<detailed_traineeships, all_traineeships>>
               ELSE /\ detailed_traineeships' = detailed
                    /\ outcome' = outcome
                    /\ IF Len(detailed) = Len(traineeships_on_page)
                       THEN /\ pc' = "page_end"
                            /\ all_traineeships' = Extend(all_traineeships, detailed)
                       ELSE pc' = "details" /\ UNCHANGED all_traineeships
    /\ UNCHANGED <<entry, produced, argv, args, config, scraper, max_pages, get_details, detected,
                   total_pages, page, traineeships_on_page, handed, unitVars>>

\* a plausible slip: the delay is taken after the last page too
PageEndDelaying ==
    /\ pc = "page_end"
    /\ log' = Append(log, Event("sleep", "page", page, "none"))
    /\ IF page < total_pages
       THEN page' = page + 1 /\ pc' = "page"
       ELSE pc' = "scrape_all_return" /\ UNCHANGED page
    /\ UNCHANGED <<entry, produced, argv, args, config, scraper, max_pages, get_details, detected,
                   total_pages, traineeships_on_page, detailed_traineeships,
                   all_traineeships, outcome, handed, unitVars>>

\* the end of the loop body: the delay `if page < total_pages`, then the next page
PageEnd ==
    /\ pc = "page_end"
    /\ IF page < total_pages
       THEN /\ log' = Append(log, Event("sleep", "page", page, "none"))
            /\ page' = page + 1
            /\ pc' = "page"
       ELSE /\ pc' = "scrape_all_return"
            /\ UNCHANGED <<log, page>>
    /\ UNCHANGED <<entry, produced, argv, args, config, scraper, max_pages, get_details, detected,
                   total_pages, traineeships_on_page, detailed_traineeships,
                   all_traineeships, outcome, handed, unitVars>>

\* `return all_traineeships`, and under main the rest of scrape_command up to the call
\* of save_to_csv: the empty check and the null clean-up
ScrapeAllReturn ==
    /\ pc = "scrape_all_return"
    /\ pc' = "done"
    /\ IF entry = "scrape_all"
       THEN outcome' = "scrape_all returned" /\ UNCHANGED handed
       ELSE IF all_traineeships = << >>
            THEN outcome' = "no traineeships" /\ UNCHANGED handed
            ELSE outcome' = "persisting" /\ handed' = CleanAll(all_traineeships)
    /\ UNCHANGED <<entry, produced, argv, args, config, scraper, max_pages, get_details, detected,
                   total_pages, page, traineeships_on_page, detailed_traineeships,
                   all_traineeships, log, unitVars>>

Next ==
    \/ Main
    \/ SearchCommand
    \/ ScrapeCommand
    \/ ScrapeAllStart
    \/ ScrapePage
    \/ ScrapeDetails
    \/ PageEnd
    \/ ScrapeAllReturn

Spec == CrawlInit /\ [][Next]_vars

\* the page numbers of the listing pages fetched so far, in the order of the requests
RECURSIVE ListingPagesIn(_)
ListingPagesIn(events) ==
    IF events = << >> THEN << >>
    ELSE (IF Head(events).op = "get" /\ Head(events).target = "listing"
          THEN <<Head(events).page>> ELSE << >>) \o ListingPagesIn(Tail(events))

\* get_total_pages() has returned
Detected == log # << >> /\ outcome # "scrape_all raised"

\* scrape_all has returned its list
Returned ==
    \/ pc = "scrape_all_return"
    \/ outcome \in {"scrape_all returned", "no traineeships", "persisting"}

\* the claim's N for the detected total and the cap given to scrape_all
C2_N ==
    IF max_pages = << >> \/ max_pages[1] <= 0 THEN detected
    ELSE IF max_pages[1] < detected THEN max_pages[1] ELSE detected

\* C2: with detected total T and page cap C, scrape_all fetches exactly the listing
\* pages 1..N, in ascending order, each once, N = min(T, C) for a positive C and N = T
\* for a C that is 0 or absent; no page above N is ever fetched.
C2_PagesOneToN ==
    Detected =>
        LET fetched == ListingPagesIn(log)
        IN  /\ Len(fetched) <= C2_N
            /\ \A i \in 1..Len(fetched) : fetched[i] = i
            /\ Returned => Len(fetched) = C2_N

\* C2 witness: a cap of 2 on 3 detected pages, pages 1 and 2 fetched
C2_Witness ==
    /\ Returned
    /\ detected = 3
    /\ max_pages = <<2>>
    /\ ListingPagesIn(log) = <<1, 2>>

\* C3: nothing raised during the crawl aborts it: whatever fetch fails, of the page
\* count, of a listing page or of a detail page, scrape_all does not raise.
C3_ScrapeAllNeverRaises == outcome # "scrape_all raised"

\* a failed listing fetch is the last request of the log
LastFetchFailed ==
    /\ log # << >>
    /\ log[Len(log)].target = "listing"
    /\ log[Len(log)].status \in {"http_error", "conn_error"}

\* the requests for listing pages that failed
FailedListingPages ==
    {log[i].page : i \in {j \in 1..Len(log) :
        log[j].target = "listing" /\ log[j].status \in {"http_error", "conn_error"}}}

IsPrefix(a, b) == Len(a) <= Len(b) /\ SubSeq(b, 1, Len(a)) = a

\* C4: when the fetch of listing page p fails, the page yields no record and raises
\* nothing, the records of the earlier pages stay in all_traineeships, and every later
\* page up to the effective page count is still fetched.
C4_FailedPageIsEmptyAndCrawlGoesOn ==
    /\ [](LastFetchFailed =>
            /\ outcome # "scrape_all raised"
            /\ pc \in {"page_end", "scrape_all_return", "done"}
            /\ traineeships_on_page = << >>)
    /\ [](\A i \in 1..Len(all_traineeships) :
            all_traineeships[i].page_number \notin FailedListingPages)
    /\ []((Returned /\ FailedListingPages # {}) =>
            ListingPagesIn(log) = [i \in 1..C2_N |-> i])
    /\ [][IsPrefix(all_traineeships, all_traineeships')]_vars

\* C4 witness: page 2 of 3 failed, pages 1 and 3 were fetched and their records are kept
C4_Witness ==
    /\ Returned
    /\ FailedListingPages = {2}
    /\ ListingPagesIn(log) = <<1, 2, 3>>
    /\ {all_traineeships[i].page_number : i \in 1..Len(all_traineeships)} = {1, 3}

\* the fields of the collection: every key of any of its records
FieldsOf(records) == UNION {DOMAIN records[i] : i \in 1..Len(records)}

\* C7: in the collection handed to save_to_csv every record carries every field of the
\* collection (description too, whenever any record has it), none of them None.
C7_EveryRecordHasEveryField ==
    \A i \in 1..Len(handed) :
        /\ DOMAIN handed[i] = FieldsOf(handed)
        /\ \A key \in DOMAIN handed[i] \ {"page_number"} : handed[i][key] # None

\* the claim's invalid configuration
C9_Invalid(cfg) ==
    \/ cfg.groq_api_key = << >>
    \/ cfg.base_url = << >>
    \/ cfg.base_url[1] # "http"
    \/ cfg.base_url[2] # "s://erasmusintern.org"

\* C9: with an invalid configuration (API key missing, base URL empty or not starting
\* with https://erasmusintern.org) main aborts at startup: no scraper is created and no
\* HTTP request is made, whatever the command.
C9_InvalidConfigAbortsBeforeNetwork ==
    (entry = "main" /\ C9_Invalid(config)) =>
        /\ scraper = << >>
        /\ log = << >>
        /\ pc \in {"main", "done"}
        /\ pc = "done" => outcome = "exit 1"

\* C9 witness: the scrape command, an API key, a base URL of another site: exit 1
C9_Witness ==
    /\ entry = "main"
    /\ args.command = "scrape"
    /\ config.groq_api_key # << >>
    /\ config.base_url = <<"http", "://example.org">>
    /\ outcome = "exit 1"
    /\ log = << >>

(***************************************************************************)
(* save_to_csv                                                             *)
(*                                                                         *)
(* A path is <<directory, name, extension>>.  The file system answers each *)
(* call: fs.makedirs and fs.append are "ok" or the exception raised,       *)
(* fs.exists is os.path.exists(filename), fs.write[d] is what to_csv does  *)
(* at destination d.                                                       *)
(***************************************************************************)
Destinations == {"target", "renamed", "temp", "cwd"}

DateStr == "2025-02-27_18-28-26"

\* os.path.join(self.data_dir, f"erasmusintern_traineeships_{date_str}.csv")
DefaultCsvPath == <<"data/", "erasmusintern_traineeships_" \o DateStr, ".csv">>

\* base, ext = os.path.splitext(filename); f"{base}_new{ext}"
RenamedPath(path) == <<path[1], path[2] \o "_new", path[3]>>

BackupPath == <<"/tmp/", "erasmusintern_backup_" \o DateStr, ".csv">>
FallbackPath == <<"", "erasmusintern_traineeships_fallback_" \o DateStr, ".csv">>

\* what save_to_csv did: the destinations it wrote to, in order, and how it ended
Saved(attempts, path) == [exc |-> "none", ret |-> path, attempts |-> attempts]
SaveRaised(attempts, e) == [exc |-> e, ret |-> << >>, attempts |-> attempts]

\* the except branches of the write: date_str is bound only when the default filename was
\* built, so with a caller's filename either branch raises UnboundLocalError; an exception
\* raised inside an except branch is not handled by the branch that follows it
SaveFallback(first, fs, date_bound) ==
    IF fs.write[first] = "PermissionError"
    THEN IF ~date_bound THEN SaveRaised(<<first>>, "UnboundLocalError")
         ELSE IF fs.write["temp"] = "ok" THEN Saved(<<first, "temp">>, BackupPath)
         ELSE SaveRaised(<<first, "temp">>, fs.write["temp"])
    ELSE IF ~date_bound THEN SaveRaised(<<first>>, "UnboundLocalError")
         ELSE IF fs.write["cwd"] = "ok" THEN Saved(<<first, "cwd">>, FallbackPath)
         ELSE SaveRaised(<<first, "cwd">>, fs.write["cwd"])

\* save_to_csv(traineeships, filename): filename is << >> for None, <<path>> otherwise,
\* and the path << >> is the empty string
SaveToCsv(traineeships, filename, fs) ==
    IF traineeships = << >> THEN Saved(<< >>, << >>)
    ELSE LET date_bound == filename = << >> \/ filename[1] = << >>
             path == IF date_bound THEN DefaultCsvPath ELSE filename[1]
             locked == fs.exists /\ fs.append # "ok"
             first == IF locked THEN "renamed" ELSE "target"
         IN  IF fs.makedirs # "ok" THEN SaveRaised(<< >>, fs.makedirs)
             ELSE IF fs.write[first] = "ok"
                  THEN Saved(<<first>>, IF locked THEN RenamedPath(path) ELSE path)
             ELSE SaveFallback(first, fs, date_bound)

(***************************************************************************)
(* save_to_csv on its own: every file system, with and without a filename  *)
(***************************************************************************)
WriteOutcomes == {"ok", "PermissionError", "OSError"}

FileSystems ==
    [makedirs : {"ok", "PermissionError"},
     exists : BOOLEAN,
     append : {"ok", "PermissionError"},
     write : [Destinations -> WriteOutcomes]]

GivenCsvPath == <<"out/", "jobs", ".csv">>

SaveInit ==
    /\ pc = "save_call"
    /\ s_traineeships \in {<< >>, <<ListingRecord(RealDuration, NotSpecified)>>}
    /\ s_filename \in {<< >>, <<<< >>>>, <<GivenCsvPath>>}
    /\ s_fs \in FileSystems
    /\ s_result = NoResult
    /\ DetailIdle
    /\ ListingIdle
    /\ CrawlIdle
    /\ SearchIdle
    /\ RankIdle
    /\ PagesIdle

SaveCall ==
    /\ pc = "save_call"
    /\ s_result' = SaveToCsv(s_traineeships, s_filename, s_fs)
    /\ pc' = "save_done"
    /\ UNCHANGED <<s_traineeships, s_filename, s_fs, detailVars, listingVars, crawlVars,
                   searchVars, rankVars, pagesVars>>

SaveNext == SaveCall

SpecSave == SaveInit /\ [][SaveNext]_vars

\* the first destination of the claim's cascade
C6_First == IF s_fs.exists /\ s_fs.append # "ok" THEN "renamed" ELSE "target"

\* C6: the CSV is written to the target (a disambiguated name when the target exists and
\* cannot be opened for append); on a permission error the system temporary directory is
\* tried, on a failure there the current working directory, and only a failure at that
\* last destination leaves save_to_csv, with and without a filename from the caller.
C6_CascadeInOrder ==
    (pc = "save_done" /\ s_traineeships # << >> /\ s_fs.makedirs = "ok") =>
        /\ s_fs.write[C6_First] = "ok" =>
              s_result.exc = "none" /\ s_result.attempts = <<C6_First>>
        /\ s_fs.write[C6_First] = "PermissionError" =>
              IF s_fs.write["temp"] = "ok"
              THEN s_result.exc = "none" /\ s_result.attempts = <<C6_First, "temp">>
              ELSE IF s_fs.write["cwd"] = "ok"
                   THEN /\ s_result.exc = "none"
                        /\ s_result.attempts = <<C6_First, "temp", "cwd">>
                   ELSE /\ s_result.exc # "none"
                        /\ s_result.attempts = <<C6_First, "temp", "cwd">>

(***************************************************************************)
(* search.py: keyword_matching                                             *)
(*                                                                         *)
(* A score is the fraction num/den, kept as the record of both.            *)
(***************************************************************************)
\* c.lower(), for one character
LowerChar(c) == IF c = "A" THEN "a" ELSE IF c = "B" THEN "b" ELSE c

\* s.lower()
Lower(s) == [i \in 1..Len(s) |-> LowerChar(s[i])]

\* term in text, for two strings
Occurs(term, text) ==
    \E offset \in 0..(Len(text) - Len(term)) :
        \A i \in 1..Len(term) : text[offset + i] = term[i]

\* s.split(): the maximal runs of characters that are not whitespace
RECURSIVE SplitFrom(_, _)
SplitFrom(s, word) ==
    IF s = << >> THEN (IF word = << >> THEN << >> ELSE <<word>>)
    ELSE IF Head(s) \in Whitespace
         THEN (IF word = << >> THEN << >> ELSE <<word>>) \o SplitFrom(Tail(s), << >>)
         ELSE SplitFrom(Tail(s), Append(word, Head(s)))

Split(s) == SplitFrom(s, << >>)

\* job.get(key, '')
JobGet(job, key) == IF key \in DOMAIN job THEN job[key] ELSE << >>

\* job_text
JobText(job) ==
    Lower(JobGet(job, "title")) \o <<" ">> \o Lower(JobGet(job, "company")) \o <<" ">>
    \o Lower(JobGet(job, "field")) \o <<" ">> \o Lower(JobGet(job, "description"))

\* a plausible slip: the query terms are matched as typed, not lowercased
RECURSIVE CountMatchesAsTyped(_, _)
CountMatchesAsTyped(job_text, query_terms) ==
    IF query_terms = << >> THEN 0
    ELSE (IF Occurs(Head(query_terms), job_text) THEN 1 ELSE 0)
         + CountMatchesAsTyped(job_text, Tail(query_terms))

\* the loop `for term in query_terms`, the terms lowercased
RECURSIVE CountMatches(_, _)
CountMatches(job_text, query_terms) ==
    IF query_terms = << >> THEN 0
    ELSE (IF Occurs(Lower(Head(query_terms)), job_text) THEN 1 ELSE 0)
         + CountMatches(job_text, Tail(query_terms))

\* is score a greater than score b
ScoreGreater(a, b) == a.num * b.den > b.num * a.den

\* the place of a new entry in a list sorted by descending score: after every entry
\* whose score is not smaller (list.sort is stable, with reverse=True too)
RECURSIVE InsertByScore(_, _)
InsertByScore(sorted, match) ==
    IF sorted = << >> THEN <<match>>
    ELSE IF ScoreGreater(match.score, Head(sorted).score) THEN <<match>> \o sorted
    ELSE <<Head(sorted)>> \o InsertByScore(Tail(sorted), match)

\* matches.sort(key=lambda x: x[1], reverse=True)
RECURSIVE SortByScore(_)
SortByScore(matches) ==
    IF matches = << >> THEN << >>
    ELSE InsertByScore(SortByScore(SubSeq(matches, 1, Len(matches) - 1)),
                       matches[Len(matches)])

\* the loop `for job in jobs`: an entry for every job with a score above 0
RECURSIVE MatchJobs(_, _)
MatchJobs(jobs, query_terms) ==
    IF jobs = << >> THEN << >>
    ELSE LET score == CountMatches(JobText(Head(jobs)), query_terms)
         IN  (IF score > 0
              THEN <<[job |-> Head(jobs), score |-> [num |-> score, den |-> Len(query_terms)]]>>
              ELSE << >>)
             \o MatchJobs(Tail(jobs), query_terms)

\* keyword_matching(jobs, query_terms)
KeywordMatching(jobs, query_terms) == SortByScore(MatchJobs(jobs, query_terms))

(***************************************************************************)
(* keyword_matching on its own: every query of up to MaxQueryLen           *)
(* characters against every collection of up to MaxJobs jobs               *)
(***************************************************************************)
MaxQueryLen == 3
MaxJobs == 3

QueryChars == {"a", "b", "A", " "}

Queries == UNION {[1..n -> QueryChars] : n \in 0..MaxQueryLen}

\* the loaded records, as far as keyword_matching reads them; the url tells them apart
JobKinds == {"a_only", "a_and_b", "neither", "ba"}

JobOf(kind, tag) ==
    CASE kind = "a_only" ->
            [title |-> <<"A">>, company |-> <<"c">>, field |-> NotSpecified,
             description |-> <<"x">>, url |-> <<tag>>]
      [] kind = "a_and_b" ->
            [title |-> <<"a">>, company |-> <<"c">>, field |-> <<"B">>, url |-> <<tag>>]
      [] kind = "neither" ->
            [title |-> <<"x">>, company |-> <<"c">>, url |-> <<tag>>]
      [] kind = "ba" ->
            [title |-> <<"c">>, company |-> <<"c">>, field |-> <<"x">>,
             description |-> <<"b", "a">>, url |-> <<tag>>]

JobLists ==
    UNION {{[i \in 1..n |-> JobOf(kinds[i], TagOf(i))] : kinds \in [1..n -> JobKinds]}
           : n \in 0..MaxJobs}

SearchInit ==
    /\ pc = "keyword_call"
    /\ k_jobs \in JobLists
    /\ k_query \in Queries
    /\ k_result = << >>
    /\ DetailIdle
    /\ ListingIdle
    /\ CrawlIdle
    /\ SaveIdle
    /\ RankIdle
    /\ PagesIdle

\* main(), method keyword: keyword_matching(jobs, args.query.split())
KeywordCall ==
    /\ pc = "keyword_call"
    /\ k_result' = KeywordMatching(k_jobs, Split(k_query))
    /\ pc' = "keyword_done"
    /\ UNCHANGED <<k_jobs, k_query, detailVars, listingVars, crawlVars, saveVars, rankVars,
                   pagesVars>>

SearchNext == KeywordCall

SpecSearch == SearchInit /\ [][SearchNext]_vars

\* the query's terms: the positions where a word starts, each with the word's characters
C10_WordStarts ==
    {i \in 1..Len(k_query) : k_query[i] # " " /\ (i = 1 \/ k_query[i - 1] = " ")}

C10_WordAt(i) ==
    LET last == CHOOSE e \in i..Len(k_query) :
                   /\ \A j \in i..e : k_query[j] # " "
                   /\ (e = Len(k_query) \/ k_query[e + 1] = " ")
    IN  SubSeq(k_query, i, last)

\* the number of query terms that occur, lowercased, in the lowercased concatenation of
\* the job's title, company, field and description
C10_Matched(job) ==
    LET part(key) == IF key \in DOMAIN job THEN Lower(job[key]) ELSE << >>
        text == part("title") \o <<" ">> \o part("company") \o <<" ">> \o part("field")
                \o <<" ">> \o part("description")
    IN  Cardinality({i \in C10_WordStarts : Occurs(Lower(C10_WordAt(i)), text)})

C10_Total == Cardinality(C10_WordStarts)

C10_ScoredJobs == {k_result[i].job : i \in 1..Len(k_result)}

\* C10 as stated: for a query of at least one term, keyword scoring gives each record
\* of the collection the score matched / total, a value in [0, 1].
C10_EveryRecordScored ==
    (pc = "keyword_done" /\ C10_Total > 0) =>
        /\ Len(k_result) = Len(k_jobs)
        /\ \A i \in 1..Len(k_jobs) : k_jobs[i] \in C10_ScoredJobs
        /\ \A i \in 1..Len(k_result) :
              /\ k_result[i].score.num = C10_Matched(k_result[i].job)
              /\ k_result[i].score.den = C10_Total

\* C10 amended: keyword scoring gives each record with at least one matching term the
\* score matched / total, a value in (0, 1], and leaves the records without a matching
\* term out of its result.
C10_MatchingRecordsScored ==
    pc = "keyword_done" =>
        /\ C10_ScoredJobs = {k_jobs[i] : i \in {j \in 1..Len(k_jobs) : C10_Matched(k_jobs[j]) > 0}}
        /\ Len(k_result) = Cardinality(C10_ScoredJobs)
        /\ \A i \in 1..Len(k_result) :
              /\ k_result[i].score.num = C10_Matched(k_result[i].job)
              /\ k_result[i].score.den = C10_Total
              /\ 0 < k_result[i].score.num
              /\ k_result[i].score.num <= k_result[i].score.den

\* C10 witness: a two-term query, one term uppercase, against a job whose text has the
\* first term and not the second: the score is 1/2
C10_Witness ==
    /\ pc = "keyword_done"
    /\ k_query = <<"A", " ", "b">>
    /\ \E i \in 1..Len(k_result) :
          /\ ~Occurs(<<"b">>, JobText(k_result[i].job))
          /\ 2 * k_result[i].score.num = k_result[i].score.den

(***************************************************************************)
(* rank_jobs.py, and main of search.py: ranking by embedding similarity    *)
(***************************************************************************)
\* a score of tenths: the similarities and the columns built from them
Tenths(n) == [num |-> n, den |-> 10]

\* the similarities the model can give a job text, in tenths
Similarities == {2, 5, 9}

\* query.replace(" ", "_")
ReplaceSpaces(query) == [i \in 1..Len(query) |-> IF query[i] = " " THEN "_" ELSE query[i]]

\* f'match_probability_{query.replace(" ", "_")}'
ColumnOf(query) == <<"match_probability_">> \o ReplaceSpaces(query)

\* col.startswith('match_probability_')
IsProbabilityColumn(col) == col # << >> /\ col[1] = "match_probability_"

AverageColumn == <<"average_match_probability">>

\* df[name] = values: a new column, or new values for the column of that name
SetColumn(df, name, values) ==
    [i \in 1..Len(df) |->
        [df[i] EXCEPT !.cols = [c \in (DOMAIN df[i].cols) \cup {name} |->
                                   IF c = name THEN values[i] ELSE df[i].cols[c]]]]

RECURSIVE SumOfColumns(_, _)
SumOfColumns(row, names) ==
    IF names = {} THEN 0
    ELSE LET c == CHOOSE x \in names : TRUE
         IN  row.cols[c].num + SumOfColumns(row, names \ {c})

\* df[probability_cols].mean(axis=1), for columns of tenths
MeanOfColumns(row, names) == [num |-> SumOfColumns(row, names), den |-> 10 * Cardinality(names)]

\* a plausible slip: the rows sorted with the smallest score first
SortValuesAscending(df, by) ==
    LET keyed == [i \in 1..Len(df) |-> [job |-> df[i], score |-> df[i].cols[by]]]
        sorted == SortByScore(keyed)
    IN  [i \in 1..Len(df) |-> sorted[Len(df) + 1 - i].job]

\* df.sort_values(by=..., ascending=False); rows of equal score keep their order here,
\* which no property below relies on
SortValues(df, by) ==
    LET keyed == [i \in 1..Len(df) |-> [job |-> df[i], score |-> df[i].cols[by]]]
        sorted == SortByScore(keyed)
    IN  [i \in 1..Len(df) |-> sorted[i].job]

\* calculate_match_probabilities(model, job_texts, query): one similarity per job, the
\* same for the same query
CalculateMatchProbabilities(sim, query, n) == [i \in 1..n |-> Tenths(sim[query][i])]

\* what a run of main leaves: the lines printed that matter, the rows of the CSV file
\* written (<< >>: no file), the results displayed, the function that scored them, and
\* what calculate_match_probabilities returned for each query of the command line
Produced(printed, csv, results, scored_by, probabilities) ==
    [printed |-> printed, csv |-> csv, results |-> results, scored_by |-> scored_by,
     probabilities |-> probabilities]

NotInstalled == "Error: Sentence Transformers not installed."
ToInstall == "To install: pip install sentence-transformers"
FallingBack == "Sentence Transformers not installed. Falling back to keyword matching."

\* the try block of process_query and process_multiple_queries when
\* SentenceTransformer(...) raises: ImportError is caught, anything else propagates
LoadFailure(load) ==
    IF load = "ImportError"
    THEN Return(Produced(<<NotInstalled, ToInstall>>, << >>, << >>, "none", << >>))
    ELSE Raise(load)

\* save_to_csv(jobs, match_probabilities, query, output_file)
RankSaveToCsv(jobs, match_probabilities, query) ==
    SortValues(SetColumn(jobs, ColumnOf(query), match_probabilities), ColumnOf(query))

\* process_query(query, input_file, output_file, model_name)
ProcessQuery(query, jobs, load, sim) ==
    IF jobs = << >> THEN Return(Produced(<<"No jobs loaded">>, << >>, << >>, "none", << >>))
    ELSE IF load # "ok" THEN LoadFailure(load)
    ELSE LET match_probabilities == CalculateMatchProbabilities(sim, query, Len(jobs))
         IN  Return(Produced(<< >>, <<RankSaveToCsv(jobs, match_probabilities, query)>>,
                             << >>, "embedding", <<match_probabilities>>))

\* the loop `for query in queries` of process_multiple_queries
RECURSIVE AddQueryColumns(_, _, _)
AddQueryColumns(df, queries, sim) ==
    IF queries = << >> THEN df
    ELSE AddQueryColumns(
             SetColumn(df, ColumnOf(Head(queries)),
                       CalculateMatchProbabilities(sim, Head(queries), Len(df))),
             Tail(queries), sim)

\* df['average_match_probability'] = df[probability_cols].mean(axis=1)
AddAverageColumn(df) ==
    SetColumn(df, AverageColumn,
              [i \in 1..Len(df) |->
                  MeanOfColumns(df[i], {c \in DOMAIN df[i].cols : IsProbabilityColumn(c)})])

\* process_multiple_queries(queries, input_file, output_file)
ProcessMultipleQueries(queries, jobs, load, sim) ==
    IF jobs = << >> THEN Return(Produced(<<"No jobs loaded">>, << >>, << >>, "none", << >>))
    ELSE IF load # "ok" THEN LoadFailure(load)
    ELSE LET df == AddAverageColumn(AddQueryColumns(jobs, queries, sim))
         IN  Return(Produced(<< >>, <<SortValues(df, AverageColumn)>>, << >>, "embedding",
                             [q \in 1..Len(queries) |->
                                 CalculateMatchProbabilities(sim, queries[q], Len(jobs))]))

\* main() of rank_jobs.py
RankJobsMain(queries, jobs, load, sim) ==
    IF queries = << >> THEN Raise("SystemExit 2")
    ELSE IF Len(queries) = 1 THEN ProcessQuery(queries[1], jobs, load, sim)
    ELSE ProcessMultipleQueries(queries, jobs, load, sim)

\* seq[:n], for n >= 0
Take(seq, n) == SubSeq(seq, 1, IF n < Len(seq) THEN n ELSE Len(seq))

Reverse(seq) == [i \in 1..Len(seq) |-> seq[Len(seq) + 1 - i]]

\* semantic_search(model, job_texts, jobs, query, top_n): np.argsort(similarities)[::-1]
\* is the ascending order read backwards, so equal similarities come last index first
SemanticSearch(jobs, similarities, top_n) ==
    LET pairs == [i \in 1..Len(jobs) |-> [job |-> jobs[i], score |-> similarities[i]]]
    IN  Take(SortByScore(Reverse(pairs)), top_n)

\* main() of search.py, after load_job_data
SearchMainRun(search_args, jobs, load, sim) ==
    IF jobs = << >> THEN Return(Produced(<< >>, << >>, << >>, "none", << >>))
    ELSE IF search_args.method = "transformer"
    THEN IF load = "ok"
         THEN LET similarities ==
                      CalculateMatchProbabilities(sim, search_args.query, Len(jobs))
              IN  Return(Produced(<< >>, << >>,
                                  SemanticSearch(jobs, similarities, search_args.results),
                                  "embedding", <<similarities>>))
         ELSE IF load = "ImportError"
         THEN Return(Produced(<<FallingBack, ToInstall>>, << >>,
                              Take(KeywordMatching(jobs, Split(search_args.query)),
                                   search_args.results),
                              "keyword", << >>))
         ELSE Raise(load)
    ELSE Return(Produced(<<"Using keyword matching...">>, << >>,
                         Take(KeywordMatching(jobs, Split(search_args.query)),
                              search_args.results),
                         "keyword", << >>))

(***************************************************************************)
(* One run of search.py or rank_jobs.py: every command line below against  *)
(* up to MaxRankJobs loaded jobs, with the model loading or failing to     *)
(* load, and every similarity the model can return                         *)
(***************************************************************************)
MaxRankJobs == 3

QuerySpaced == <<"a", " ", "b">>
QueryUnderscored == <<"a", "_", "b">>
QueryOther == <<"b">>

RankQueries == {QuerySpaced, QueryUnderscored, QueryOther}

\* the positional queries of rank_jobs.py
RankQueryLists ==
    {<< >>, <<QuerySpaced>>, <<QueryOther>>, <<QuerySpaced, QueryOther>>,
     <<QueryOther, QueryOther>>, <<QuerySpaced, QueryUnderscored>>}

RankArgSpace ==
    [program : {"search"}, query : RankQueries, results : {1, 5},
     method : {"transformer", "keyword"}]
    \cup [program : {"rank_jobs"}, query : RankQueryLists]

\* a column of an earlier ranking, present when the input file is a ranked CSV
OldColumn == <<"match_probability_", "o", "l", "d">>

RankKindOf(i) == <<"a_only", "neither", "a_and_b", "ba">>[((i - 1) % 4) + 1]

\* the loaded rows: the job's own fields, and its columns of scores
RankJobLists ==
    {[i \in 1..n |-> [job |-> JobOf(RankKindOf(i), TagOf(i)),
                      cols |-> IF old THEN [c \in {OldColumn} |-> Tenths(5)] ELSE << >>]]
       : n \in 0..MaxRankJobs, old \in BOOLEAN}

\* how SentenceTransformer(...) ends
LoadOutcomes == {"ok", "ImportError", "OSError"}

RankInit ==
    /\ pc = "rank_main"
    /\ r_args \in RankArgSpace
    /\ r_jobs \in RankJobLists
    /\ r_load \in LoadOutcomes
    /\ r_out = NoResult
    /\ DetailIdle
    /\ ListingIdle
    /\ CrawlIdle
    /\ SaveIdle
    /\ SearchIdle
    /\ PagesIdle

\* python search.py QUERY [--results N] [--method M]
SearchMain ==
    /\ pc = "rank_main"
    /\ r_args.program = "search"
    /\ \E sim \in [{r_args.query} -> [1..Len(r_jobs) -> Similarities]] :
          r_out' = SearchMainRun(r_args, [i \in 1..Len(r_jobs) |-> r_jobs[i].job],
                                 r_load, sim)
    /\ pc' = "rank_done"
    /\ UNCHANGED <<r_args, r_jobs, r_load, detailVars, listingVars, crawlVars, saveVars,
                   searchVars, pagesVars>>

\* python rank_jobs.py QUERY [QUERY ...]
RankMain ==
    /\ pc = "rank_main"
    /\ r_args.program = "rank_jobs"
    /\ \E sim \in [{r_args.query[q] : q \in 1..Len(r_args.query)}
                   -> [1..Len(r_jobs) -> Similarities]] :
          r_out' = RankJobsMain(r_args.query, r_jobs, r_load, sim)
    /\ pc' = "rank_done"
    /\ UNCHANGED <<r_args, r_jobs, r_load, detailVars, listingVars, crawlVars, saveVars,
                   searchVars, pagesVars>>

RankNext == SearchMain \/ RankMain \/ KeywordCall

SpecRank == (RankInit \/ SearchInit) /\ [][RankNext]_vars

\* out holds the elements of inp, each as often as inp does
IsPermutation(out, inp) ==
    /\ Len(out) = Len(inp)
    /\ \A i \in 1..Len(inp) :
          Cardinality({j \in 1..Len(out) : out[j] = inp[i]})
              = Cardinality({j \in 1..Len(inp) : inp[j] = inp[i]})

\* no element has a greater score than an element before it
NonIncreasing(scores) ==
    \A i, j \in 1..Len(scores) : i < j => ~ScoreGreater(scores[j], scores[i])

\* the rows of the CSV file rank_jobs.py wrote, and the column it ranked them by
C11_Rows == r_out.ret.csv[1]

C11_Column == IF Len(r_args.query) = 1 THEN ColumnOf(r_args.query[1]) ELSE AverageColumn

C11_RankJobsWrote ==
    /\ pc = "rank_done"
    /\ r_args.program = "rank_jobs"
    /\ r_out.exc = "none"
    /\ r_out.ret.csv # << >>

\* the rows are the loaded jobs in another order, each row with the columns it came with
C11_RowsArePermutation ==
    /\ IsPermutation([i \in 1..Len(C11_Rows) |-> C11_Rows[i].job],
                     [i \in 1..Len(r_jobs) |-> r_jobs[i].job])
    /\ \A i \in 1..Len(C11_Rows) : \E j \in 1..Len(r_jobs) :
          /\ C11_Rows[i].job = r_jobs[j].job
          /\ \A c \in DOMAIN r_jobs[j].cols : C11_Rows[i].cols[c] = r_jobs[j].cols[c]
          /\ Len(r_args.query) = 1 =>
                C11_Rows[i].cols[C11_Column] = r_out.ret.probabilities[1][j]

C11_RankJobsRanked ==
    C11_RankJobsWrote =>
        /\ C11_RowsArePermutation
        /\ NonIncreasing([i \in 1..Len(C11_Rows) |-> C11_Rows[i].cols[C11_Column]])

C11_KeywordJobs == [i \in 1..Len(k_result) |-> k_result[i].job]

C11_KeywordOrdered ==
    NonIncreasing([i \in 1..Len(k_result) |-> k_result[i].score])

\* C11 as stated: the ranked output is a permutation of the input records in
\* non-increasing order of the relevant score column: the query's match_probability
\* column, the average column for several queries, the keyword score for keyword matching.
C11_RankedPermutationOfInput ==
    /\ C11_RankJobsRanked
    /\ pc = "keyword_done" => IsPermutation(C11_KeywordJobs, k_jobs) /\ C11_KeywordOrdered

\* C11 amended: the output of rank_jobs.py is a permutation of the input records in
\* non-increasing order of the query's match_probability column (one query) or of the
\* average column (several queries); the output of keyword matching is a permutation of
\* the input records that match at least one query term, in non-increasing order of the
\* keyword score.
C11_RankedByScore ==
    /\ C11_RankJobsRanked
    /\ pc = "keyword_done" =>
          /\ IsPermutation(C11_KeywordJobs,
                           SelectSeq(k_jobs, LAMBDA job : C10_Matched(job) > 0))
          /\ C11_KeywordOrdered

\* C11 witness: one query whose scores for the jobs A, B, C are 0.2, 0.9, 0.5, written
\* in the order B, C, A
C11_Witness ==
    /\ C11_RankJobsWrote
    /\ Len(r_args.query) = 1
    /\ r_out.ret.probabilities[1] = <<Tenths(2), Tenths(9), Tenths(5)>>
    /\ [i \in 1..3 |-> C11_Rows[i].job] = <<r_jobs[2].job, r_jobs[3].job, r_jobs[1].job>>

\* two scores are the same number
SameScore(a, b) == a.num * b.den = b.num * a.den

\* the arithmetic mean of the scores calculated for job j, one score per query given
C12_MeanOfQueryScores(j) ==
    LET scores == r_out.ret.probabilities
        sum[q \in 0..Len(scores)] == IF q = 0 THEN 0 ELSE sum[q - 1] + scores[q][j].num
    IN  [num |-> sum[Len(scores)], den |-> 10 * Len(scores)]

\* C12: for two or more queries, process_multiple_queries sets every record's
\* average_match_probability to the arithmetic mean of the record's scores for the
\* queries given, one score per query, also when queries are equal or differ only by
\* space and underscore and when the input already has a match_probability_ column.
C12_AverageIsMeanOfQueryScores ==
    (C11_RankJobsWrote /\ Len(r_args.query) >= 2) =>
        \A i \in 1..Len(C11_Rows) : \A j \in 1..Len(r_jobs) :
            C11_Rows[i].job = r_jobs[j].job =>
                SameScore(C11_Rows[i].cols[AverageColumn], C12_MeanOfQueryScores(j))

\* the cases of C12 one by one: the invocations in which the average is the mean of the
\* query scores
C12_HoldsWithoutCollision ==
    (C11_RankJobsWrote /\ Len(r_args.query) >= 2 /\ r_jobs[1].cols = << >>
        /\ ColumnOf(r_args.query[1]) # ColumnOf(r_args.query[2]))
    => C12_AverageIsMeanOfQueryScores

C12_HoldsForEqualQueries ==
    (C11_RankJobsWrote /\ Len(r_args.query) >= 2 /\ r_jobs[1].cols = << >>
        /\ r_args.query[1] = r_args.query[2])
    => C12_AverageIsMeanOfQueryScores

\* the run selected the embedding strategy, reached SentenceTransformer(...), and the
\* library or the model was not available
C13_EmbeddingUnavailable ==
    /\ pc = "rank_done"
    /\ r_jobs # << >>
    /\ r_load # "ok"
    /\ \/ r_args.program = "rank_jobs" /\ r_args.query # << >>
       \/ r_args.program = "search" /\ r_args.method = "transformer"

\* C13: when the embedding library or model is unavailable in an invocation that
\* selected the embedding strategy, the run abandons the embedding path with an explicit
\* message to the operator and puts no keyword-scored results in the place of the
\* embedding results, in search.py main and in process_query / process_multiple_queries.
C13_AbandonedWithoutSubstitution ==
    C13_EmbeddingUnavailable =>
        /\ r_out.exc = "none"
        /\ ToInstall \in {r_out.ret.printed[i] : i \in 1..Len(r_out.ret.printed)}
        /\ r_out.ret.scored_by # "keyword"
        /\ r_out.ret.results = << >>
        /\ r_out.ret.csv = << >>

\* the rank commands on their own do as C13 says when the library is missing
C13_RankJobsAbandons ==
    (C13_EmbeddingUnavailable /\ r_args.program = "rank_jobs" /\ r_load = "ImportError")
    => C13_AbandonedWithoutSubstitution

(***************************************************************************)
(* The url of a record, through scrape_traineeship_listings and            *)
(* get_traineeship_details                                                 *)
(***************************************************************************)
SpecUrl == (ListingInit \/ DetailInit) /\ [][ListingNext \/ DetailNext]_vars

\* the href of the title link of each fragment that has one, in page order
C14_Hrefs ==
    LET linked == SelectSeq(C8_Fragments, LAMBDA c : C8_TitleHasHref(c))
    IN  [i \in 1..Len(linked) |->
            IF linked[i].title # << >> THEN linked[i].title[1].attrs.href
            ELSE linked[i].title_alt[1].attrs.href]

\* C14: every record produced by scrape_traineeship_listings has an absolute url: a link
\* that does not start with "http" is the site origin https://erasmusintern.org followed
\* by the link, a link that starts with "http" is kept as it is; get_traineeship_details
\* returns the record with the url it was given.
C14_UrlAbsoluteAndKept ==
    /\ (pc = "listing_done" /\ l_response.status = "ok") =>
          /\ Len(l_result.ret) = Len(C14_Hrefs)
          /\ \A i \in 1..Len(C14_Hrefs) :
                LET href == C14_Hrefs[i]
                    url == l_result.ret[i].url
                IN  /\ url[1] = "http"
                    /\ href # << >> /\ href[1] = "http" => url = href
                    /\ (href = << >> \/ href[1] # "http") =>
                          url = <<"http", "s://erasmusintern.org">> \o href
    /\ pc = "details_done" =>
          /\ d_result.exc = "none"
          /\ d_result.ret.url = d_traineeship.url

\* C14 witness: a page whose first fragment has a relative link and whose second has an
\* absolute one
C14_Witness ==
    /\ pc = "listing_done"
    /\ Len(l_result.ret) = 2
    /\ C14_Hrefs[1] = <<"/t/", "1">>
    /\ l_result.ret[1].url = <<"http", "s://erasmusintern.org", "/t/", "1">>
    /\ C14_Hrefs[2][1] = "http"
    /\ l_result.ret[2].url = C14_Hrefs[2]

(***************************************************************************)
(* get_total_pages on its own: every index page with or without a          *)
(* last-page link and with up to MaxPagerItems pager items                 *)
(***************************************************************************)
MaxPagerItems == 2

\* an anchor without an href attribute and without a number
PagerNoHref == [attrs |-> [class |-> <<"x">>], text |-> <<"next">>]

PagerElements ==
    {PagerLink(n - 1) : n \in 1..MaxTotal} \cup {PagerCurrent(n) : n \in 1..MaxTotal}
    \cup {PagerNoParam, PagerBadParam, PagerNoHref}

PagerSoups ==
    [pager_last : {<< >>} \cup {<<e>> : e \in PagerElements},
     pager_items : UNION {[1..n -> PagerElements] : n \in 0..MaxPagerItems}]

PagesInit ==
    /\ pc = "pages_call"
    /\ p_response \in [status : Statuses, soup : PagerSoups]
    /\ p_result = NoResult
    /\ DetailIdle
    /\ ListingIdle
    /\ CrawlIdle
    /\ SaveIdle
    /\ SearchIdle
    /\ RankIdle

PagesCall ==
    /\ pc = "pages_call"
    /\ p_result' = GetTotalPages(p_response)
    /\ pc' = "pages_done"
    /\ UNCHANGED <<p_response, detailVars, listingVars, crawlVars, saveVars, searchVars,
                   rankVars>>

PagesNext == PagesCall

SpecPages == PagesInit /\ [][PagesNext]_vars

\* the count of the primary strategy: <<k + 1>> when there is a last-page link whose
\* page parameter parses to the integer k, << >> when the strategy yields no count
C15_Primary ==
    LET last == p_response.soup.pager_last
    IN  IF /\ last # << >>
           /\ "href" \in DOMAIN last[1].attrs
           /\ HasChar(last[1].attrs.href, "page=")
           /\ IsInt(SecondPiece(last[1].attrs.href, "page="))
        THEN <<IntOf(SecondPiece(last[1].attrs.href, "page=")) + 1>>
        ELSE << >>

\* the numbers of the pager items that parse to an integer
C15_ItemNumbers ==
    LET items == p_response.soup.pager_items
    IN  {PagerItemNumber(items[i])[1] :
            i \in {j \in 1..Len(items) : PagerItemNumber(items[j]) # << >>}}

C15_Expected ==
    IF C15_Primary # << >> THEN C15_Primary[1]
    ELSE IF C15_ItemNumbers # {}
         THEN CHOOSE m \in C15_ItemNumbers : \A n \in C15_ItemNumbers : n <= m
         ELSE 1

\* C15: get_total_pages returns k + 1 when a last-page link exists and its page
\* parameter parses to the integer k; whenever that strategy yields no count (no
\* last-page link, no page parameter, a parameter that is no integer) it returns the
\* maximum over the pager items that parse to an integer; when neither strategy yields a
\* count it returns 1.
C15_OrderedStrategies ==
    (pc = "pages_done" /\ p_result.exc = "none") => p_result.ret = C15_Expected

\* the last-page link has a page parameter that is no integer
C15_ParameterUnparsable ==
    LET last == p_response.soup.pager_last
    IN  /\ last # << >>
        /\ "href" \in DOMAIN last[1].attrs
        /\ HasChar(last[1].attrs.href, "page=")
        /\ ~IsInt(SecondPiece(last[1].attrs.href, "page="))

\* in every other case the strategies are tried in the order C15 gives, and with an
\* unparsable parameter the result is 1 whatever the pager items are
C15_OrderedUnlessUnparsable ==
    (pc = "pages_done" /\ p_result.exc = "none") =>
        IF C15_ParameterUnparsable THEN p_result.ret = 1 ELSE p_result.ret = C15_Expected

\* the fragments of the answered page that produce a record, in page order
C16_Linked == SelectSeq(C8_Fragments, LAMBDA c : C8_TitleHasHref(c))

\* the text of a found element, whitespace trimmed and the label removed
C16_Text(element, label) == Strip(RemoveAll(Strip(element), label))

C16_Label(key) == IF key = "duration" THEN "Duration:" ELSE "Post date:"

\* the selectors of the field, by position, whose match is an element with a text
C16_NonEmpty(c, key) ==
    {j \in 1..Len(c[key]) : c[key][j] # << >> /\ C16_Text(c[key][j][1], C16_Label(key)) # << >>}

\* the selectors of the field, by position, that find an element
C16_Found(c, key) == {j \in 1..Len(c[key]) : c[key][j] # << >>}

C16_First(positions) == CHOOSE j \in positions : \A k \in positions : j <= k

\* C16: duration and post_date are the text of the first selector, in list order, that
\* yields a non-empty match, the label removed and whitespace trimmed; when no selector
\* yields a non-empty match the value is exactly "Not specified", never an empty string
\* or null.
C16_FirstNonEmptyOrSentinel ==
    (pc = "listing_done" /\ l_response.status = "ok") =>
        \A i \in 1..Len(l_result.ret) : \A key \in {"duration", "post_date"} :
            LET c == C16_Linked[i]
                value == l_result.ret[i][key]
            IN  /\ value # << >>
                /\ value # None
                /\ IF C16_NonEmpty(c, key) # {}
                   THEN value = C16_Text(c[key][C16_First(C16_NonEmpty(c, key))][1],
                                         C16_Label(key))
                   ELSE value = NotSpecified

\* what holds instead: the value is the text of the first selector that finds an
\* element, whatever its text, and the sentinel when no selector finds one
C16_FirstFoundOrSentinel ==
    (pc = "listing_done" /\ l_response.status = "ok") =>
        \A i \in 1..Len(l_result.ret) : \A key \in {"duration", "post_date"} :
            LET c == C16_Linked[i]
                value == l_result.ret[i][key]
            IN  IF C16_Found(c, key) # {}
                THEN value = C16_Text(c[key][C16_First(C16_Found(c, key))][1], C16_Label(key))
                ELSE value = NotSpecified

\* the positions in the log of the delays between two pages
C17_PageDelays == {i \in 1..Len(log) : log[i].op = "sleep" /\ log[i].target = "page"}

\* C17: in scrape_all with effective page count N, a delay is taken after the
\* processing of every page p < N and before the fetch of page p + 1, and none after
\* page N: a crawl of N >= 1 pages has exactly N - 1 delays between pages.
C17_DelayBetweenPagesOnly ==
    Detected =>
        /\ \A i \in C17_PageDelays :
              /\ log[i].page < total_pages
              /\ \A j \in 1..Len(log) :
                    (log[j].op = "get" /\ log[j].target \in {"listing", "detail"}
                        /\ log[j].page <= log[i].page) => j < i
              /\ i < Len(log) => log[i + 1] = Event("get", "listing", log[i].page + 1,
                                                       log[i + 1].status)
        /\ \A j \in 1..Len(log) :
              (log[j].op = "get" /\ log[j].target = "listing" /\ log[j].page > 1) =>
                  log[j - 1] = Event("sleep", "page", log[j].page - 1, "none")
        /\ Returned =>
              /\ total_pages >= 1
              /\ Cardinality(C17_PageDelays) = total_pages - 1
              /\ {log[i].page : i \in C17_PageDelays} = 1..(total_pages - 1)

\* C17 witness: a crawl of three pages has returned, with one delay after page 1 and one
\* after page 2
C17_Witness ==
    /\ Returned
    /\ total_pages = 3
    /\ ListingPagesIn(log) = <<1, 2, 3>>
    /\ Cardinality(C17_PageDelays) = 2
    /\ log[Len(log)].op = "get"

\* the urls of the detail pages requested for page p so far, in the order of the requests
RECURSIVE C18_DetailUrls(_, _)
C18_DetailUrls(events, p) ==
    IF events = << >> THEN << >>
    ELSE (IF Head(events).op = "get" /\ Head(events).target = "detail" /\ Head(events).page = p
          THEN <<Head(events).url>> ELSE << >>) \o C18_DetailUrls(Tail(events), p)

\* the records of page p, in record order: the page being processed, or a page whose
\* records are in the accumulated list
C18_RecordsOfPage(p) ==
    IF p = page /\ pc = "details" THEN traineeships_on_page
    ELSE SelectSeq(all_traineeships, LAMBDA t : t.page_number = p)

C18_UrlsOfPage(p) ==
    LET records == C18_RecordsOfPage(p)
    IN  [i \in 1..Len(records) |-> records[i].url]

\* the pages whose listing has been requested
C18_Pages == {log[i].page : i \in {j \in 1..Len(log) : log[j].target = "listing"}}

\* C18: the crawl issues its requests one after the other.  With details requested,
\* every detail request for the records of page p comes after the listing request of
\* page p and before the listing request of page p + 1, the detail requests of a page
\* are in record order, and each comes right after a delay of its own; with details not
\* requested no detail request is issued.
C18_SequentialDetails ==
    /\ \A j \in 1..Len(log) : log[j].target = "detail" =>
          /\ get_details
          /\ \E i \in 1..(j - 1) :
                log[i].op = "get" /\ log[i].target = "listing" /\ log[i].page = log[j].page
          /\ \A k \in 1..Len(log) :
                (log[k].target = "listing" /\ log[k].page > log[j].page) => j < k
          /\ log[j].op = "get" =>
                /\ j > 1
                /\ log[j - 1] = [log[j] EXCEPT !.op = "sleep", !.status = "none"]
                /\ j > 2 => ~(log[j - 2].op = "sleep" /\ log[j - 2].target = "detail")
    /\ \A p \in C18_Pages :
          LET requested == C18_DetailUrls(log, p)
              urls == C18_UrlsOfPage(p)
          IN  /\ IsPrefix(requested, urls)
              /\ (get_details /\ (p < page \/ pc \notin {"page", "details"})) =>
                    requested = urls
    /\ ~get_details => \A j \in 1..Len(log) : log[j].target # "detail"

\* C18 witness: a crawl with details has returned after two pages of several records
\* each, both records of page 1 requested in order between the two listing requests
C18_Witness ==
    /\ Returned
    /\ get_details
    /\ total_pages = 2
    /\ Len(C18_UrlsOfPage(1)) = 2
    /\ C18_DetailUrls(log, 1) = C18_UrlsOfPage(1)
    /\ C18_DetailUrls(log, 2) = C18_UrlsOfPage(2)
    /\ Len(C18_DetailUrls(log, 2)) = 2

\* scrape_command has called scrape_all
C19_ScrapeAllCalled ==
    /\ entry = "main"
    /\ argv.command = "scrape"
    /\ pc \notin {"main", "scrape_command"}
    /\ outcome # "exit 1"

\* C19: when the scrape command is run without --max-pages, the page cap passed to
\* scrape_all is the configured max_pages (MAX_PAGES of the environment); the value of
\* the command line is the cap only when it was given.
C19_ConfiguredCapUnlessGiven ==
    C19_ScrapeAllCalled =>
        max_pages = (IF argv.max_pages = << >> THEN <<config.max_pages>> ELSE argv.max_pages)

\* what the program does: the cap is the command line's value, and 0 (every page)
\* without --max-pages, whatever MAX_PAGES is
C19_ConfiguredCapNeverUsed ==
    C19_ScrapeAllCalled =>
        max_pages = (IF argv.max_pages = << >> THEN <<0>> ELSE argv.max_pages)

\* main was run without a subcommand, with a configuration validate_config accepts, and
\* has ended
C20_NoSubcommandRunEnded ==
    /\ entry = "main"
    /\ argv.command = "none"
    /\ ValidateConfig(config)
    /\ pc = "done"

\* C20: when main is invoked with no subcommand and a valid configuration, it runs the
\* scrape command and the crawl is started: scrape_all is called with the default
\* options, as if "scrape" had been given with no flags.
C20_NoSubcommandStartsCrawl ==
    C20_NoSubcommandRunEnded =>
        /\ scraper # << >>
        /\ log # << >>
        /\ max_pages = ParseArgs([command |-> "scrape", max_pages |-> << >>,
                                  no_details |-> FALSE]).max_pages
        /\ get_details

\* what the program does: the run ends in scrape_command's except branch before the
\* scraper is created, with no request made
C20_NoSubcommandEndsInError ==
    C20_NoSubcommandRunEnded =>
        outcome = "error AttributeError" /\ scraper = << >> /\ log = << >>

\* the fields of a record that say which record it is: what the listing page gave it,
\* apart from the fields a detail page may fill in
C21_Identity(record) ==
    [key \in {"title", "company", "location", "deadline", "field", "url", "page_number"} |->
        record[key]]

\* the accumulated list holds one record for each of the produced records, in their order,
\* each with the page it was fetched from as page_number
C21_Holds(records) ==
    /\ Len(all_traineeships) = Len(records)
    /\ \A i \in 1..Len(records) :
          /\ C21_Identity(all_traineeships[i]) = C21_Identity(records[i].record)
          /\ all_traineeships[i].page_number = records[i].page
    /\ \A i, j \in 1..Len(all_traineeships) :
          i < j => all_traineeships[i].page_number <= all_traineeships[j].page_number

\* the produced records of the pages whose processing is over: all of them, except
\* while the detail requests of the current page are being made
C21_ProducedByFinishedPages ==
    IF pc = "details"
    THEN SubSeq(produced, 1, Len(produced) - Len(traineeships_on_page))
    ELSE produced

\* C21 as stated: at every point of scrape_all the accumulated list holds exactly one
\* record per record produced so far by the listing-page fetches, in page order and then
\* fragment order, with a page_number that never decreases and is the page of the fetch;
\* requesting details changes neither the number nor the order.
C21_AccumulatedAtEveryPoint == C21_Holds(produced)

\* C21 amended: whenever the processing of a page is over, and at the return, the
\* accumulated list holds exactly one record per record produced so far by the
\* listing-page fetches, in page order and then fragment order, with a page_number that
\* never decreases and is the page of the fetch; while the detail requests of a page are
\* being made the list holds the records of the earlier pages only.  Requesting details
\* changes neither the number nor the order, whether a detail fetch succeeds or fails.
C21_AccumulatedAfterEachPage == C21_Holds(C21_ProducedByFinishedPages)

\* C21 witness: a crawl with details has returned after two pages of two records each,
\* with a detail fetch that failed and one that succeeded
C21_Witness ==
    /\ Returned
    /\ get_details
    /\ Len(produced) = 4
    /\ Len(all_traineeships) = 4
    /\ \E i \in 1..Len(log) : log[i].target = "detail" /\ log[i].status = "conn_error"
    /\ \E i \in 1..Len(log) : log[i].target = "detail" /\ log[i].status = "ok"
    /\ all_traineeships[2].page_number = 1
    /\ all_traineeships[3].page_number = 2

====
